---- MODULE Spec2Model ----
(***************************************************************************)
(* State-machine model of the epoll based chat relay server                *)
(* (src/Server-side/server_header_definition.cpp) together with the        *)
(* buffer helpers it calls (src/common/input.hpp).                         *)
(*                                                                         *)
(* Bytes are one-character strings, C strings are sequences of bytes.      *)
(* The kernel side of every client socket (open handles, epoll interest    *)
(* set, unread bytes, peer state) is part of the state, so that the        *)
(* outcome of recv / send / close on a handle is computed, not assumed.    *)
(***************************************************************************)
EXTENDS Integers, Sequences, FiniteSets, TLC

\* ---------------------------------------------------------------- bounds
\* steps the environment takes over a run: connections made, lines written,
\* shutdowns, resets, reads that return fewer bytes than are pending, and
\* epoll_ctl(EPOLL_CTL_ADD) calls the kernel refuses
MaxNetSteps == 5

\* ------------------------------------------------------ program constants
BUFFER_SIZE == 1024
TEMP_USERNAME_SIZE == 64
MAX_EVENTS == 10
MAX_CLIENTS == 7
server_fd == 0

\* client handle numbers and connection identities: one more than MAX_CLIENTS
FDs == 1..(MAX_CLIENTS + 1)
Conns == 1..(MAX_CLIENTS + 1)

\* ------------------------------------------------------------ byte strings
cmd == <<"/", "u", "s", "e", "r", "n", "a", "m", "e", " ">>
DUPLICATED_USERNAME_ERROR == <<"1", "0", "1">>
success_msg == <<"O", "K", "\n">>
NameA == <<"a">>
NameB == <<"b">>
RegLineA == cmd \o NameA \o <<"\n">>
RegLineB == cmd \o NameB \o <<"\n">>
ChatLine == <<"h", "i", "\n">>
\* the lines a peer may write
PeerLines == {RegLineA, RegLineB, ChatLine}

\* a line of whitespace only, and the lines of peers that also write such lines
BlankLine == <<" ", "\n">>
PeerLinesBlank == {RegLineA, ChatLine, BlankLine}

\* the longest name register_username lets through
MAX_NAME_LENGTH == 50
\* what the operator may type at the name prompt: nothing, one space, a name, and
\* a name one character too long
OverlongName == [k \in 1..(MAX_NAME_LENGTH + 1) |-> "x"]
TypedNames == {<<>>, <<" ">>, NameA, OverlongName}

\* what the operator may type in chat mode before Enter
ClearCmd == <<"/", "c", "l", "e", "a", "r">>
TypedLines == {<<>>, ClearCmd, ClearCmd \o <<"l", "y">>, <<"h", "i">>}

\* a name as long as the server's name buffer, terminator included
LongName == [k \in 1..TEMP_USERNAME_SIZE |-> "x"]

\* the lines of the three-client session
Alice == <<"a", "l", "i", "c", "e">>
Bob == <<"b", "o", "b">>
Carol == <<"c", "a", "r", "o", "l">>
Hello == <<"h", "e", "l", "l", "o">>
Bye == <<"b", "y", "e">>
Greeting(username) == cmd \o username \o <<"\n">>
\* who writes what, in order: connection 1 is A, 2 is B, 3 is C
Session == << [conn |-> 1, line |-> Greeting(Alice)],
              [conn |-> 2, line |-> Greeting(Bob)],
              [conn |-> 3, line |-> Greeting(Alice)],
              [conn |-> 3, line |-> Greeting(Carol)],
              [conn |-> 1, line |-> Hello \o <<"\n">>],
              [conn |-> 1, line |-> Bye \o <<"\n">>] >>

Min(a, b) == IF a < b THEN a ELSE b
Take(s, n) == SubSeq(s, 1, Min(n, Len(s)))
Drop(s, n) == SubSeq(s, n + 1, Len(s))
Perms(S) == {p \in [1..Cardinality(S) -> S] : \A x, y \in DOMAIN p : p[x] = p[y] => x = y}
Without(f, k) == [x \in (DOMAIN f) \ {k} |-> f[x]]

\* std::isspace in the "C" locale (vertical tab and form feed are not in the alphabet)
isspace(c) == c \in {" ", "\n", "\t", "\r"}

\* index of the first non-whitespace byte at or after start (length + 1 if none)
RECURSIVE FirstNonSpace(_, _)
FirstNonSpace(buffer, start) ==
    IF start <= Len(buffer) /\ isspace(buffer[start])
    THEN FirstNonSpace(buffer, start + 1)
    ELSE start

\* index of the last non-whitespace byte, scanning down from end, never below start
RECURSIVE LastNonSpace(_, _, _)
LastNonSpace(buffer, start, end) ==
    IF end > start /\ isspace(buffer[end])
    THEN LastNonSpace(buffer, start, end - 1)
    ELSE end

\* trimBuffer: the buffer contents after the in-place trim (its length is the result)
trimBuffer(buffer) ==
    IF Len(buffer) <= 0 THEN <<>>
    ELSE LET start == FirstNonSpace(buffer, 1) IN
         IF start = Len(buffer) + 1 THEN <<>>
         ELSE SubSeq(buffer, start, LastNonSpace(buffer, start, Len(buffer)))

\* the emptiness test answering "not empty" whatever the buffer holds
isBufferEmpty_Never(buffer) == FALSE

isBufferEmpty(buffer) ==
    \/ Len(buffer) <= 0
    \/ \A k \in 1..Len(buffer) : isspace(buffer[k])

bufferEndsWith(buffer, suffix) ==
    /\ Len(buffer) >= Len(suffix)
    /\ SubSeq(buffer, Len(buffer) - Len(suffix) + 1, Len(buffer)) = suffix

bufferStartsWith(buffer, prefix) ==
    /\ Len(buffer) >= Len(prefix)
    /\ SubSeq(buffer, 1, Len(prefix)) = prefix

\* strncmp(buffer, cmd, strlen(cmd)) == 0 on a NUL terminated buffer
HasCmdPrefix(buffer) ==
    /\ Len(buffer) >= Len(cmd)
    /\ SubSeq(buffer, 1, Len(cmd)) = cmd

\* parse_username: [ok, name]; name is what strncpy leaves in out_name
parse_username(buffer, out_size) ==
    IF ~HasCmdPrefix(buffer) THEN [ok |-> FALSE, name |-> <<>>]
    ELSE LET name_start == Drop(buffer, Len(cmd)) IN
         IF name_start = <<>> THEN [ok |-> FALSE, name |-> <<>>]
         ELSE [ok |-> TRUE, name |-> Take(name_start, out_size - 1)]

\* ------------------------------------------------------------------ state
VARIABLES
    open,        \* kernel: client handles that are open
    epoll,       \* kernel: client handles in the epoll interest set
    fdconn,      \* kernel: handle -> connection that last owned the number (0: none)
    inbound,     \* kernel: handle -> bytes written by the peer and not yet read
    sock,        \* kernel: handle -> "ok" | "eof" (peer shut down) | "reset"
    backlog,     \* kernel: completed connections waiting in the listen queue
    nextConn,    \* identity given to the next accepted connection
    clients,     \* TcpServer::clients: handle -> [username, write_buffer]
    usernames,   \* TcpServer::usernames
    events,      \* the batch returned by the last epoll_wait
    i,           \* index of the next event of the batch
    pc,          \* "wait" | "dispatch" | "crashed" | "stopped" | "destroyed"
    SERVER_IS_RUNNING,  \* TcpServer::SERVER_IS_RUNNING
    sysCloses,   \* close() calls issued on the epoll handle and the listening socket
    step,        \* lines of the three-client session written so far
    outbox,      \* connection -> lines the server wrote to it, in order
    sentBytes,   \* connection -> every byte the peer wrote, in order
    resolved,    \* connection -> messages the server acted on, in order
    claimed,     \* connection -> names it was acknowledged for
    closeCalls,  \* connection -> close() calls issued on its handle number
    bcast,       \* what the last handled event broadcast
    netSteps,    \* steps the network has taken so far
    peer,        \* connection -> state of the client program behind it
    reported     \* for each event of the batch, the connection it was reported for

vars == <<open, epoll, fdconn, inbound, sock, backlog, nextConn, clients, usernames,
          events, i, pc, outbox, sentBytes, resolved, claimed, closeCalls, bcast,
          netSteps, SERVER_IS_RUNNING, sysCloses, step, peer, reported>>

\* Client-main.cpp before its first send: nothing sent, registered = false,
\* nothing received
\* entered: the lines the operator has ended with Enter in chat mode
\* stalled: the program has stopped reading and the socket's buffers are full
NewClientProgram == [greeted |-> FALSE, registered |-> FALSE, read |-> 0, entered |-> <<>>,
                     stalled |-> FALSE]

NoBcast == [active |-> FALSE, sender |-> 0, senderConn |-> 0, name |-> <<>>,
            msg |-> <<>>, targets |-> {}, visited |-> {}, visits |-> 0,
            delivered |-> {}, failed |-> {}, advancedFromErased |-> FALSE]

\* the part of the state one event handler reads and writes
Snap == [open |-> open, epoll |-> epoll, fdconn |-> fdconn, inbound |-> inbound,
         sock |-> sock, backlog |-> backlog, nextConn |-> nextConn,
         clients |-> clients, usernames |-> usernames, outbox |-> outbox,
         resolved |-> resolved, claimed |-> claimed, closeCalls |-> closeCalls,
         bcast |-> NoBcast, crashed |-> FALSE, peer |-> peer]

Commit(S) ==
    /\ open' = S.open
    /\ epoll' = S.epoll
    /\ fdconn' = S.fdconn
    /\ inbound' = S.inbound
    /\ sock' = S.sock
    /\ backlog' = S.backlog
    /\ nextConn' = S.nextConn
    /\ clients' = S.clients
    /\ usernames' = S.usernames
    /\ outbox' = S.outbox
    /\ resolved' = S.resolved
    /\ claimed' = S.claimed
    /\ closeCalls' = S.closeCalls
    /\ bcast' = S.bcast
    /\ IF S.crashed
       THEN pc' = "crashed" /\ i' = i
       ELSE /\ i' = i + 1
            /\ pc' = IF i + 1 <= Len(events) THEN "dispatch"
                     ELSE IF SERVER_IS_RUNNING THEN "wait" ELSE "stopped"

Init ==
    /\ open = {}
    /\ epoll = {}
    /\ fdconn = [fd \in FDs |-> 0]
    /\ inbound = [fd \in FDs |-> <<>>]
    /\ sock = [fd \in FDs |-> "ok"]
    /\ backlog = 0
    /\ nextConn = 1
    /\ clients = <<>>
    /\ usernames = {}
    /\ events = <<>>
    /\ i = 1
    /\ pc = "wait"
    /\ outbox = [c \in Conns |-> <<>>]
    /\ sentBytes = [c \in Conns |-> <<>>]
    /\ resolved = [c \in Conns |-> <<>>]
    /\ claimed = [c \in Conns |-> {}]
    /\ closeCalls = [c \in Conns |-> 0]
    /\ bcast = NoBcast
    /\ netSteps = 0
    /\ SERVER_IS_RUNNING = TRUE
    /\ sysCloses = [epoll_fd |-> 0, server_fd |-> 0]
    /\ step = 0
    /\ peer = [c \in Conns |-> NewClientProgram]
    /\ reported = <<>>

\* ------------------------------------------------------- kernel operations
\* epoll_ctl(EPOLL_CTL_ADD); ctl_ok = FALSE is the call returning -1, which
\* add_to_epoll only reports
add_to_epoll(S, fd, ctl_ok) == IF ctl_ok THEN [S EXCEPT !.epoll = @ \cup {fd}] ELSE S

\* epoll_ctl(EPOLL_CTL_DEL): fails (and changes nothing) when fd is not monitored
remove_from_epoll(S, fd) == [S EXCEPT !.epoll = @ \ {fd}]

\* close(fd): counted against the connection that last owned the number, whether or
\* not the handle is still open; the kernel drops the socket with the handle
close(S, fd) ==
    [S EXCEPT !.closeCalls = IF S.fdconn[fd] = 0 THEN @
                             ELSE [@ EXCEPT ![S.fdconn[fd]] = @ + 1],
              !.open = @ \ {fd},
              !.epoll = @ \ {fd},
              !.inbound = [@ EXCEPT ![fd] = <<>>],
              !.sock = [@ EXCEPT ![fd] = "ok"]]

\* send(fd, ...) > 0: the handle is open and the peer has not reset the connection
SendSucceeds(S, fd) == fd \in S.open /\ S.sock[fd] # "reset"

\* the bytes a send with a result > 0 hands to the kernel: all of them, or, when the
\* peer has stopped reading and the wait for buffer space is cut short, a prefix
Accepted(S, fd, data) ==
    IF S.peer[S.fdconn[fd]].stalled THEN Take(data, 1) ELSE data

\* the bytes of a successful send reach the connection behind the handle
Deliver(S, fd, data) ==
    [S EXCEPT !.outbox = [@ EXCEPT ![S.fdconn[fd]] = Append(@, Accepted(S, fd, data))]]

\* send whose result the caller ignores
SendIgnoringResult(S, fd, data) == IF SendSucceeds(S, fd) THEN Deliver(S, fd, data) ELSE S

\* ------------------------------------------------------- server operations
\* Client{new_fd, "", "", ""}
NewClient == [username |-> <<>>, write_buffer |-> <<>>]

\* clients[fd]: std::unordered_map::operator[] inserts a default Client when absent
ClientAt(S, fd) == IF fd \in DOMAIN S.clients THEN S.clients[fd] ELSE NewClient

SetClient(S, fd, c) == [S EXCEPT !.clients = (fd :> c) @@ @]

\* the duplicate check answering "not taken" whatever the registry holds
IsDuplicated_Username_Never(names, new_username) == FALSE

IsDuplicated_Username(names, new_username) == new_username \in names

\* disconnect_client without its clients.erase
disconnect_client_KeepsEntry(S, client_fd) ==
    LET S1 == close(remove_from_epoll(S, client_fd), client_fd) IN
    IF client_fd \in DOMAIN S1.clients
    THEN [S1 EXCEPT !.usernames = @ \ {S1.clients[client_fd].username}]
    ELSE S1

\* disconnect_client emptying the registry instead of erasing one name
disconnect_client_ClearsRegistry(S, client_fd) ==
    LET S1 == close(remove_from_epoll(S, client_fd), client_fd) IN
    IF client_fd \in DOMAIN S1.clients
    THEN [S1 EXCEPT !.usernames = {}, !.clients = Without(@, client_fd)]
    ELSE S1

\* disconnect_client without its usernames.erase
disconnect_client_KeepsName(S, client_fd) ==
    LET S1 == close(remove_from_epoll(S, client_fd), client_fd) IN
    IF client_fd \in DOMAIN S1.clients
    THEN [S1 EXCEPT !.clients = Without(@, client_fd)]
    ELSE S1

disconnect_client(S, client_fd) ==
    LET S1 == close(remove_from_epoll(S, client_fd), client_fd) IN
    IF client_fd \in DOMAIN S1.clients
    THEN [S1 EXCEPT !.usernames = @ \ {S1.clients[client_fd].username},
                    !.clients = Without(@, client_fd)]
    ELSE S1

\* lowest-numbered handle that is not open, as accept() returns it
LowestFree(S) == CHOOSE f \in FDs \ S.open : \A g \in FDs \ S.open : f <= g

\* handle_new_connection; accepted = FALSE is accept() returning -1
handle_new_connection(S, accepted, ctl_ok) ==
    IF ~accepted THEN [S EXCEPT !.backlog = @ - 1]
    ELSE LET new_fd == LowestFree(S)
             S1 == [S EXCEPT !.backlog = @ - 1,
                             !.open = @ \cup {new_fd},
                             !.fdconn = [@ EXCEPT ![new_fd] = S.nextConn],
                             !.nextConn = @ + 1]
         IN SetClient(add_to_epoll(S1, new_fd, ctl_ok), new_fd, NewClient)

\* what advancing the range-for does after the entry under the iterator was erased:
\* the freed node still links to its successor, reads as the end of the list, or faults
UBOutcomes == {"next", "end", "crash"}

\* the loop without its sender test
IsSender_Never(client_fd, fd) == FALSE

\* the test that keeps the sender out of its own broadcast
IsSender(client_fd, fd) == client_fd = fd

\* the range-for over clients, at position k of the iteration order
RECURSIVE BroadcastLoop(_, _, _, _, _, _)
BroadcastLoop(S, order, k, fd, msg, ub) ==
    IF k > Len(order) THEN S
    ELSE LET client_fd == order[k] IN
         IF IsSender(client_fd, fd) THEN BroadcastLoop(S, order, k + 1, fd, msg, ub)
         ELSE LET S1 == [S EXCEPT !.bcast.visited = @ \cup {client_fd},
                                      !.bcast.visits = @ + 1] IN
              IF SendSucceeds(S1, client_fd)
              THEN BroadcastLoop(
                       [Deliver(S1, client_fd, msg) EXCEPT
                            !.bcast.delivered = @ \cup {S1.fdconn[client_fd]}],
                       order, k + 1, fd, msg, ub)
              ELSE LET S2 == [disconnect_client(S1, client_fd) EXCEPT
                                  !.bcast.failed = @ \cup {client_fd},
                                  !.bcast.advancedFromErased = TRUE]
                   IN CASE ub[client_fd] = "next" ->
                               BroadcastLoop(S2, order, k + 1, fd, msg, ub)
                        [] ub[client_fd] = "end" -> S2
                        [] OTHER -> [S2 EXCEPT !.crashed = TRUE]

\* the broadcast leaving the write buffer as it is
write_buffer_clear_Skipped(client) == client

\* clients[fd].write_buffer.clear()
write_buffer_clear(client) == [client EXCEPT !.write_buffer = <<>>]

\* the body of the event loop for a chunk of n > 0 bytes read from fd
HandleChunk(S, fd, chunk, order, ub) ==
    LET has_newline == bufferEndsWith(chunk, <<"\n">>)
        buffer == trimBuffer(chunk)
        me == S.fdconn[fd]
    IN
    IF isBufferEmpty(buffer) THEN S
    ELSE LET p == parse_username(buffer, TEMP_USERNAME_SIZE) IN
    IF p.ok
    THEN LET S0 == [S EXCEPT !.resolved =
                        [@ EXCEPT ![me] = Append(@, [kind |-> "reg", text |-> p.name])]]
         IN IF IsDuplicated_Username(S0.usernames, p.name)
            THEN SendIgnoringResult(S0, fd, DUPLICATED_USERNAME_ERROR)
            ELSE LET S1 == SetClient(S0, fd, [ClientAt(S0, fd) EXCEPT !.username = p.name])
                     S2 == [S1 EXCEPT !.usernames = @ \cup {p.name},
                                      !.claimed = [@ EXCEPT ![me] = @ \cup {p.name}]]
                 IN SendIgnoringResult(S2, fd, success_msg)
    ELSE LET S1 == SetClient(S, fd, [ClientAt(S, fd) EXCEPT !.write_buffer = @ \o buffer]) IN
         IF ~has_newline THEN S1
         ELSE LET text == S1.clients[fd].write_buffer
                  name == S1.clients[fd].username
                  msg == name \o <<":", " ">> \o text \o <<"\n">>
                  S2 == SetClient(S1, fd, write_buffer_clear(S1.clients[fd]))
                  S3 == [S2 EXCEPT
                            !.resolved = [@ EXCEPT ![me] =
                                             Append(@, [kind |-> "chat", text |-> text])],
                            !.bcast = [NoBcast EXCEPT !.active = TRUE,
                                                      !.sender = fd,
                                                      !.senderConn = me,
                                                      !.name = name,
                                                      !.msg = msg,
                                                      !.targets = DOMAIN S2.clients]]
              IN BroadcastLoop(S3, order, 1, fd, msg, ub)

\* the chunk completes a chat line, so handling it runs the broadcast loop
Broadcasts(chunk) ==
    /\ ~isBufferEmpty(trimBuffer(chunk))
    /\ ~parse_username(trimBuffer(chunk), TEMP_USERNAME_SIZE).ok
    /\ bufferEndsWith(chunk, <<"\n">>)

\* the targets of the broadcast whose send fails
SendFailures(S, fd, chunk) ==
    IF Broadcasts(chunk)
    THEN {f \in (DOMAIN S.clients) \ {fd} : ~SendSucceeds(S, f)}
    ELSE {}

\* the orders in which the range-for may visit clients (unspecified for an
\* unordered_map); one order stands for all when no entry is erased on the way
IterationOrders(S, fd, chunk) ==
    IF SendFailures(S, fd, chunk) = {}
    THEN {CHOOSE p \in Perms(DOMAIN S.clients) : TRUE}
    ELSE Perms(DOMAIN S.clients)

\* recv(fd, buffer, BUFFER_SIZE - 1, 0) <= 0: bad handle, reset, or end of stream
RecvFails(S, fd) ==
    \/ fd \notin S.open
    \/ S.inbound[fd] = <<>> /\ S.sock[fd] # "ok"

\* recv would return data
RecvHasData(S, fd) == fd \in S.open /\ S.inbound[fd] # <<>>

\* recv does not return: the socket is in blocking mode (O_NONBLOCK is never set),
\* nothing is pending and the peer is still connected
RecvBlocks(S, fd) == fd \in S.open /\ S.inbound[fd] = <<>> /\ S.sock[fd] = "ok"

\* ----------------------------------------------------------------- actions
\* a peer completes a TCP connection to the listening socket
PeerConnect ==
    /\ pc \notin {"crashed", "destroyed"}
    /\ netSteps < MaxNetSteps
    /\ netSteps' = netSteps + 1
    /\ backlog' = backlog + 1
    /\ UNCHANGED <<SERVER_IS_RUNNING, sysCloses, step, peer, reported>>
    /\ UNCHANGED <<open, epoll, fdconn, inbound, sock, nextConn, clients, usernames,
                   events, i, pc, outbox, sentBytes, resolved, claimed, closeCalls,
                   bcast>>

\* a peer writes one line
PeerSend(fd, line) ==
    /\ pc # "crashed"
    /\ fd \in open
    /\ sock[fd] = "ok"
    /\ netSteps < MaxNetSteps
    /\ netSteps' = netSteps + 1
    /\ inbound' = [inbound EXCEPT ![fd] = @ \o line]
    /\ sentBytes' = [sentBytes EXCEPT ![fdconn[fd]] = @ \o line]
    /\ UNCHANGED <<SERVER_IS_RUNNING, sysCloses, step, peer, reported>>
    /\ UNCHANGED <<open, epoll, fdconn, sock, backlog, nextConn, clients, usernames,
                   events, i, pc, outbox, resolved, claimed, closeCalls, bcast>>

\* a peer shuts its side down: the server reads end of stream after the pending bytes
PeerClose(fd) ==
    /\ pc # "crashed"
    /\ fd \in open
    /\ sock[fd] = "ok"
    /\ netSteps < MaxNetSteps
    /\ netSteps' = netSteps + 1
    /\ sock' = [sock EXCEPT ![fd] = "eof"]
    /\ UNCHANGED <<SERVER_IS_RUNNING, sysCloses, step, peer, reported>>
    /\ UNCHANGED <<open, epoll, fdconn, inbound, backlog, nextConn, clients, usernames,
                   events, i, pc, outbox, sentBytes, resolved, claimed, closeCalls,
                   bcast>>

\* a peer's connection breaks: pending bytes are lost, recv and send fail from now on
PeerReset(fd) ==
    /\ pc # "crashed"
    /\ fd \in open
    /\ sock[fd] # "reset"
    /\ netSteps < MaxNetSteps
    /\ netSteps' = netSteps + 1
    /\ sock' = [sock EXCEPT ![fd] = "reset"]
    /\ inbound' = [inbound EXCEPT ![fd] = <<>>]
    /\ UNCHANGED <<SERVER_IS_RUNNING, sysCloses, step, peer, reported>>
    /\ UNCHANGED <<open, epoll, fdconn, backlog, nextConn, clients, usernames,
                   events, i, pc, outbox, sentBytes, resolved, claimed, closeCalls,
                   bcast>>

\* a peer stops reading: from now on a send to it is cut short
PeerStall(fd) ==
    /\ pc # "crashed"
    /\ fd \in open
    /\ sock[fd] = "ok"
    /\ ~peer[fdconn[fd]].stalled
    /\ netSteps < MaxNetSteps
    /\ netSteps' = netSteps + 1
    /\ peer' = [peer EXCEPT ![fdconn[fd]].stalled = TRUE]
    /\ UNCHANGED <<open, epoll, fdconn, inbound, sock, backlog, nextConn, clients,
                   usernames, events, i, pc, outbox, sentBytes, resolved, claimed,
                   closeCalls, bcast, SERVER_IS_RUNNING, sysCloses, step, reported>>

\* the handles epoll_wait reports: level-triggered EPOLLIN, plus error and hang-up
Ready ==
    (IF backlog > 0 THEN {server_fd} ELSE {})
        \cup {fd \in epoll : inbound[fd] # <<>> \/ sock[fd] # "ok"}

\* epoll_wait returning nfds > 0 events, in any order
Wait ==
    /\ pc = "wait"
    /\ Ready # {}
    /\ \E batch \in SUBSET Ready :
         /\ Cardinality(batch) = Min(Cardinality(Ready), MAX_EVENTS)
         /\ \E order \in Perms(batch) : events' = order
    /\ reported' = [k \in DOMAIN events' |->
                       IF events'[k] = server_fd THEN 0 ELSE fdconn[events'[k]]]
    /\ i' = 1
    /\ pc' = "dispatch"
    /\ bcast' = NoBcast
    /\ UNCHANGED <<SERVER_IS_RUNNING, sysCloses, step, peer>>
    /\ UNCHANGED <<open, epoll, fdconn, inbound, sock, backlog, nextConn, clients,
                   usernames, outbox, sentBytes, resolved, claimed, closeCalls, netSteps>>

\* loop body, case 1: the event is for the listening socket
DispatchAccept ==
    /\ pc = "dispatch"
    /\ events[i] = server_fd
    /\ backlog > 0
    /\ \E accepted \in BOOLEAN, ctl_ok \in BOOLEAN :
         /\ ~accepted => ctl_ok
         /\ IF ctl_ok
            THEN netSteps' = netSteps
            ELSE netSteps < MaxNetSteps /\ netSteps' = netSteps + 1
         /\ Commit(handle_new_connection(Snap, accepted, ctl_ok))
    /\ UNCHANGED <<SERVER_IS_RUNNING, sysCloses, step, peer, reported>>
    /\ UNCHANGED <<events, sentBytes>>

\* loop body, case 2, recv returned n <= 0
DispatchRecvFail ==
    /\ pc = "dispatch"
    /\ events[i] # server_fd
    /\ RecvFails(Snap, events[i])
    /\ Commit(disconnect_client(Snap, events[i]))
    /\ UNCHANGED <<SERVER_IS_RUNNING, sysCloses, step, peer, reported>>
    /\ UNCHANGED <<events, sentBytes, netSteps>>

\* loop body, case 2, recv returned n > 0 bytes
DispatchRecv ==
    /\ pc = "dispatch"
    /\ events[i] # server_fd
    /\ RecvHasData(Snap, events[i])
    /\ LET fd == events[i] IN
       \E n \in 1..Min(Len(inbound[fd]), BUFFER_SIZE - 1) :
         /\ IF n < Len(inbound[fd])
            THEN netSteps < MaxNetSteps /\ netSteps' = netSteps + 1
            ELSE netSteps' = netSteps
         /\ \E order \in IterationOrders(Snap, fd, Take(inbound[fd], n)),
               ub \in [SendFailures(Snap, fd, Take(inbound[fd], n)) -> UBOutcomes] :
              Commit(HandleChunk([Snap EXCEPT !.inbound = [@ EXCEPT ![fd] = Drop(@, n)]],
                                 fd, Take(inbound[fd], n), order, ub))
    /\ UNCHANGED <<SERVER_IS_RUNNING, sysCloses, step, peer, reported>>
    /\ UNCHANGED <<events, sentBytes>>

\* Shutting_down(), called while run() is in its loop
Shutting_down ==
    /\ pc \in {"wait", "dispatch"}
    /\ SERVER_IS_RUNNING
    /\ SERVER_IS_RUNNING' = FALSE
    /\ UNCHANGED <<pc, sysCloses, step, peer, reported>>
    /\ UNCHANGED <<open, epoll, fdconn, inbound, sock, backlog, nextConn, clients,
                   usernames, events, i, outbox, sentBytes, resolved, claimed,
                   closeCalls, bcast, netSteps>>

\* epoll_wait returning 0 after its timeout; the loop condition then ends run()
WaitTimeout ==
    /\ pc = "wait"
    /\ Ready = {}
    /\ ~SERVER_IS_RUNNING
    /\ pc' = "stopped"
    /\ UNCHANGED <<SERVER_IS_RUNNING, sysCloses, step, peer, reported>>
    /\ UNCHANGED <<open, epoll, fdconn, inbound, sock, backlog, nextConn, clients,
                   usernames, events, i, outbox, sentBytes, resolved, claimed,
                   closeCalls, bcast, netSteps>>

\* close(fd) for every fd of a set
RECURSIVE CloseAll(_, _)
CloseAll(S, fds) ==
    IF fds = {} THEN S
    ELSE LET fd == CHOOSE f \in fds : TRUE IN CloseAll(close(S, fd), fds \ {fd})

\* ~TcpServer, run when main returns after run()
TcpServer_destructor ==
    /\ pc = "stopped"
    /\ LET S == CloseAll(Snap, DOMAIN clients) IN
         /\ open' = S.open
         /\ epoll' = {}
         /\ inbound' = S.inbound
         /\ sock' = S.sock
         /\ closeCalls' = S.closeCalls
    /\ sysCloses' = [epoll_fd |-> sysCloses.epoll_fd + 1,
                     server_fd |-> sysCloses.server_fd + 1]
    /\ clients' = <<>>
    /\ usernames' = {}
    /\ pc' = "destroyed"
    /\ UNCHANGED <<fdconn, backlog, nextConn, events, i, outbox, sentBytes, resolved,
                   claimed, bcast, netSteps, SERVER_IS_RUNNING, step, peer, reported>>

\* the next line of the three-client session is written once the server has
\* handled everything written before
SessionWrite ==
    /\ pc = "wait"
    /\ backlog = 0
    /\ \A fd \in FDs : inbound[fd] = <<>>
    /\ step < Len(Session)
    /\ \E fd \in open :
         /\ fdconn[fd] = Session[step + 1].conn
         /\ sock[fd] = "ok"
         /\ inbound' = [inbound EXCEPT ![fd] = @ \o Session[step + 1].line]
         /\ sentBytes' = [sentBytes EXCEPT ![fdconn[fd]] = @ \o Session[step + 1].line]
    /\ step' = step + 1
    /\ UNCHANGED <<open, epoll, fdconn, sock, backlog, nextConn, clients, usernames,
                   events, i, pc, outbox, resolved, claimed, closeCalls, bcast,
                   netSteps, SERVER_IS_RUNNING, sysCloses, peer, reported>>

Next ==
    \/ PeerConnect
    \/ \E fd \in FDs, line \in PeerLines : PeerSend(fd, line)
    \/ \E fd \in FDs : PeerClose(fd)
    \/ \E fd \in FDs : PeerReset(fd)
    \/ Wait
    \/ DispatchAccept
    \/ DispatchRecvFail
    \/ DispatchRecv

\* the program as Server_main.cpp wires it: nothing calls Shutting_down
Spec == Init /\ [][Next]_vars

\* the TcpServer class with Shutting_down called from outside the loop
NextShutdown == Next \/ Shutting_down \/ WaitTimeout \/ TcpServer_destructor

SpecShutdown == Init /\ [][NextShutdown]_vars

\* three peers have connected before the first epoll_wait
InitSession ==
    /\ open = {}
    /\ epoll = {}
    /\ fdconn = [fd \in FDs |-> 0]
    /\ inbound = [fd \in FDs |-> <<>>]
    /\ sock = [fd \in FDs |-> "ok"]
    /\ backlog = 3
    /\ nextConn = 1
    /\ clients = <<>>
    /\ usernames = {}
    /\ events = <<>>
    /\ i = 1
    /\ pc = "wait"
    /\ outbox = [c \in Conns |-> <<>>]
    /\ sentBytes = [c \in Conns |-> <<>>]
    /\ resolved = [c \in Conns |-> <<>>]
    /\ claimed = [c \in Conns |-> {}]
    /\ closeCalls = [c \in Conns |-> 0]
    /\ bcast = NoBcast
    /\ netSteps = 0
    /\ SERVER_IS_RUNNING = TRUE
    /\ sysCloses = [epoll_fd |-> 0, server_fd |-> 0]
    /\ step = 0
    /\ peer = [c \in Conns |-> NewClientProgram]
    /\ reported = <<>>

\* a peer connects while fewer than MAX_CLIENTS + 1 connections were made or wait
FloodConnect ==
    /\ pc \notin {"crashed", "destroyed"}
    /\ (nextConn - 1) + backlog < MAX_CLIENTS + 1
    /\ backlog' = backlog + 1
    /\ UNCHANGED <<SERVER_IS_RUNNING, sysCloses, step, peer, reported>>
    /\ UNCHANGED <<open, epoll, fdconn, inbound, sock, nextConn, clients, usernames,
                   events, i, pc, outbox, sentBytes, resolved, claimed, closeCalls,
                   bcast, netSteps>>

\* a peer that has written nothing yet writes its registration line
UnregisteredGreet(fd, line) ==
    /\ fd \in DOMAIN clients
    /\ clients[fd].username = <<>>
    /\ sentBytes[fdconn[fd]] = <<>>
    /\ PeerSend(fd, line)

\* a peer the server holds a name for writes a chat line
RegisteredChat(fd) ==
    /\ fd \in DOMAIN clients
    /\ clients[fd].username # <<>>
    /\ PeerSend(fd, ChatLine)

\* peers that register, chat only once registered, and stay connected
NextChat ==
    \/ PeerConnect
    \/ \E fd \in FDs, line \in {RegLineA, RegLineB} : UnregisteredGreet(fd, line)
    \/ \E fd \in FDs : RegisteredChat(fd)
    \/ Wait
    \/ DispatchAccept
    \/ DispatchRecv

SpecChat == Init /\ [][NextChat]_vars

\* peers that may also stop reading
NextShortWrite == Next \/ \E fd \in FDs : PeerStall(fd)

SpecShortWrite == Init /\ [][NextShortWrite]_vars

\* peers that only connect, one more of them than MAX_CLIENTS
NextFlood == FloodConnect \/ Wait \/ DispatchAccept

SpecFlood == Init /\ [][NextFlood]_vars

\* the bytes of several writes as one recv returns them
RECURSIVE Concat(_)
Concat(msgs) == IF msgs = <<>> THEN <<>> ELSE Head(msgs) \o Concat(Tail(msgs))

\* Client-main.cpp: the user has typed a name and the greeting is sent
ClientGreet(fd, username) ==
    /\ pc # "crashed"
    /\ fd \in open
    /\ sock[fd] = "ok"
    /\ ~peer[fdconn[fd]].greeted
    /\ netSteps < MaxNetSteps
    /\ netSteps' = netSteps + 1
    /\ inbound' = [inbound EXCEPT ![fd] = @ \o Greeting(username)]
    /\ sentBytes' = [sentBytes EXCEPT ![fdconn[fd]] = @ \o Greeting(username)]
    /\ peer' = [peer EXCEPT ![fdconn[fd]].greeted = TRUE]
    /\ UNCHANGED <<open, epoll, fdconn, sock, backlog, nextConn, clients, usernames,
                   events, i, pc, outbox, resolved, claimed, closeCalls, bcast,
                   SERVER_IS_RUNNING, sysCloses, step, reported>>

\* Client-main.cpp, socket readable: recv returns the next k writes of the server
\* as one chunk; a chunk ending in the conflict token makes the client prompt for
\* another name and send it, any other chunk makes an unregistered client
\* registered
ClientRecv(fd, k, username) ==
    /\ pc # "crashed"
    /\ fd \in open
    /\ sock[fd] = "ok"
    /\ LET c == fdconn[fd]
           buf == Concat(SubSeq(outbox[c], peer[c].read + 1, peer[c].read + k))
       IN
       /\ peer[c].greeted
       /\ peer[c].read + k <= Len(outbox[c])
       /\ IF bufferEndsWith(buf, DUPLICATED_USERNAME_ERROR)
          THEN /\ netSteps < MaxNetSteps
               /\ netSteps' = netSteps + 1
               /\ inbound' = [inbound EXCEPT ![fd] = @ \o Greeting(username)]
               /\ sentBytes' = [sentBytes EXCEPT ![c] = @ \o Greeting(username)]
               /\ peer' = [peer EXCEPT ![c].read = @ + k]
          ELSE /\ peer' = [peer EXCEPT ![c].read = @ + k, ![c].registered = TRUE]
               /\ UNCHANGED <<inbound, sentBytes, netSteps>>
    /\ UNCHANGED <<open, epoll, fdconn, sock, backlog, nextConn, clients, usernames,
                   events, i, pc, outbox, resolved, claimed, closeCalls, bcast,
                   SERVER_IS_RUNNING, sysCloses, step, reported>>

\* handle_stdin, called only once registered is true: the typed line is sent
ClientChat(fd) ==
    /\ fd \in open
    /\ peer[fdconn[fd]].registered
    /\ PeerSend(fd, ChatLine)

\* register_username: typed is what the operator answers to the prompts, in order;
\* an empty or overlong answer is asked again, the first other answer is returned
\* with its leading and trailing whitespace erased
RECURSIVE register_username(_)
register_username(typed) ==
    IF typed = <<>> THEN [returned |-> FALSE, name |-> <<>>]
    ELSE LET name == Head(typed) IN
         IF name = <<>> \/ Len(name) > MAX_NAME_LENGTH
         THEN register_username(Tail(typed))
         ELSE [returned |-> TRUE, name |-> trimBuffer(name)]

\* main before the loop: the name prompt, answered by typed, then the greeting
OperatorGreet(fd, typed) ==
    /\ register_username(typed).returned
    /\ ClientGreet(fd, register_username(typed).name)

\* the socket branch of the loop, with the name prompt answered by typed
OperatorRecv(fd, k, typed) ==
    /\ register_username(typed).returned
    /\ ClientRecv(fd, k, register_username(typed).name)

\* handle_stdin at Enter: the bytes sent for what input_buffer holds
handle_stdin(input_buffer) ==
    IF input_buffer = <<>> THEN <<>>
    ELSE IF bufferStartsWith(input_buffer, ClearCmd) THEN <<>>
    ELSE input_buffer \o <<"\n">>

\* the operator of a registered client types a line and presses Enter
OperatorEnter(fd, line) ==
    /\ pc # "crashed"
    /\ fd \in open
    /\ sock[fd] = "ok"
    /\ peer[fdconn[fd]].registered
    /\ netSteps < MaxNetSteps
    /\ netSteps' = netSteps + 1
    /\ inbound' = [inbound EXCEPT ![fd] = @ \o handle_stdin(line)]
    /\ sentBytes' = [sentBytes EXCEPT ![fdconn[fd]] = @ \o handle_stdin(line)]
    /\ peer' = [peer EXCEPT ![fdconn[fd]].entered = Append(@, line)]
    /\ UNCHANGED <<open, epoll, fdconn, sock, backlog, nextConn, clients, usernames,
                   events, i, pc, outbox, resolved, claimed, closeCalls, bcast,
                   SERVER_IS_RUNNING, sysCloses, step, reported>>

\* the answers an operator gives to one round of name prompts
TypedAnswers == {<<n>> : n \in TypedNames} \cup {<<n, m>> : n, m \in TypedNames}

\* every peer is the client program with an operator at its keyboard
NextOperator ==
    \/ PeerConnect
    \/ \E fd \in FDs, typed \in TypedAnswers : OperatorGreet(fd, typed)
    \/ \E fd \in FDs, k \in 1..2, typed \in TypedAnswers : OperatorRecv(fd, k, typed)
    \/ \E fd \in FDs, line \in TypedLines : OperatorEnter(fd, line)
    \/ Wait
    \/ DispatchAccept
    \/ DispatchRecv

SpecOperator == Init /\ [][NextOperator]_vars

\* every peer runs the client program
NextClient ==
    \/ PeerConnect
    \/ \E fd \in FDs, username \in {NameA, NameB} : ClientGreet(fd, username)
    \/ \E fd \in FDs, k \in 1..2, username \in {NameA, NameB} : ClientRecv(fd, k, username)
    \/ \E fd \in FDs : ClientChat(fd)
    \/ \E fd \in FDs : PeerClose(fd)
    \/ \E fd \in FDs : PeerReset(fd)
    \/ Wait
    \/ DispatchAccept
    \/ DispatchRecvFail
    \/ DispatchRecv

SpecClient == Init /\ [][NextClient]_vars

\* peers that register, chat and write whitespace-only lines
NextBlank ==
    \/ PeerConnect
    \/ \E fd \in FDs, line \in PeerLinesBlank : PeerSend(fd, line)
    \/ \E fd \in FDs : PeerClose(fd)
    \/ \E fd \in FDs : PeerReset(fd)
    \/ Wait
    \/ DispatchAccept
    \/ DispatchRecvFail
    \/ DispatchRecv

SpecBlank == Init /\ [][NextBlank]_vars

\* peers whose only line is the greeting with the long name
NextLongName ==
    \/ PeerConnect
    \/ \E fd \in FDs : PeerSend(fd, Greeting(LongName))
    \/ Wait
    \/ DispatchAccept
    \/ DispatchRecv

SpecLongName == Init /\ [][NextLongName]_vars

\* the three-client session: the peers write the lines of Session in order
NextSession == SessionWrite \/ Wait \/ DispatchAccept \/ DispatchRecv

SpecSession == InitSession /\ [][NextSession]_vars

TypeOK ==
    /\ open \subseteq FDs
    /\ epoll \subseteq FDs
    /\ DOMAIN clients \subseteq FDs
    /\ pc \in {"wait", "dispatch", "crashed", "stopped", "destroyed"}
    /\ SERVER_IS_RUNNING \in BOOLEAN

\* ------------------------------------------------------- derived notions
\* the connection behind an open handle is live
Live(c) == \E fd \in open : fdconn[fd] = c

\* a connection is registered when its Client holds a display name
Registered(fd) == fd \in DOMAIN clients /\ clients[fd].username # <<>>

RegisteredNames == {clients[fd].username : fd \in {f \in DOMAIN clients : Registered(f)}}

\* nothing of what the peer wrote is left unread, and the peer is still there
Drained(fd) == fd \in DOMAIN clients /\ fd \in open /\ inbound[fd] = <<>> /\ sock[fd] = "ok"

\* a connection freshly accepted on handle 1 of an otherwise idle server
FreshSnap ==
    [open |-> {1}, epoll |-> {1}, fdconn |-> [fd \in FDs |-> IF fd = 1 THEN 1 ELSE 0],
     inbound |-> [fd \in FDs |-> <<>>], sock |-> [fd \in FDs |-> "ok"], backlog |-> 0,
     nextConn |-> 2, clients |-> (1 :> NewClient), usernames |-> {},
     outbox |-> [c \in Conns |-> <<>>], resolved |-> [c \in Conns |-> <<>>],
     claimed |-> [c \in Conns |-> {}], closeCalls |-> [c \in Conns |-> 0],
     bcast |-> NoBcast, crashed |-> FALSE, peer |-> [c \in Conns |-> NewClientProgram]]

\* the messages the server acts on when the bytes arrive as one chunk
OneChunk(bytes) ==
    IF bytes = <<>> THEN <<>>
    ELSE HandleChunk(FreshSnap, 1, bytes, <<1>>, <<>>).resolved[1]

\* ------------------------------------------------------------------ claims

\* C1. Registry bijection: in every reachable state the set of names in the
\* username registry equals the set of display names of the live registered
\* connections (no leaked entry, no orphaned connection).
C1_RegistryBijection == usernames = RegisteredNames

\* C2. Pre-registration silence: a chat line from a connection that has not
\* registered is never sent to any other connection.
C2_PreRegistrationSilence ==
    (bcast.active /\ bcast.name = <<>>) => (bcast.visited = {} /\ bcast.delivered = {})

\* C3. Mid-broadcast failure isolation: when a send fails during a broadcast, the
\* failed target is destroyed once, the loop never advances from an erased entry,
\* and every other target is still visited exactly once.
C3_MidBroadcastFailureIsolation ==
    (bcast.active /\ bcast.failed # {}) =>
        /\ ~bcast.advancedFromErased
        /\ pc # "crashed"
        /\ bcast.failed \cap DOMAIN clients = {}
        /\ bcast.failed \cap open = {}
        /\ bcast.visited = bcast.targets \ {bcast.sender}
        /\ bcast.visits = Cardinality(bcast.visited)

\* C4. Name uniqueness: no two live connections hold the same non-empty display
\* name, and no step gives a connection a name that another live connection holds.
C4_NameUniqueness ==
    /\ [](\A f1, f2 \in DOMAIN clients :
            (f1 # f2 /\ Registered(f1)) => clients[f1].username # clients[f2].username)
    /\ [][\A fd \in DOMAIN clients' :
            (fd \notin DOMAIN clients \/ clients'[fd].username # clients[fd].username)
                => \A other \in (DOMAIN clients) \ {fd} :
                      (Registered(other) /\ other \in DOMAIN clients')
                          => clients'[fd].username # clients[other].username]_vars

\* a second request for a held name was turned down while its holder stayed registered
C4_Witness ==
    \E f1, f2 \in DOMAIN clients :
        /\ f1 # f2
        /\ clients[f1].username = NameA
        /\ clients[f2].username = <<>>
        /\ resolved[fdconn[f2]] = <<[kind |-> "reg", text |-> NameA]>>
        /\ outbox[fdconn[f2]] = <<DUPLICATED_USERNAME_ERROR>>

\* C5. Conflict retry loop: when two connections each send /username with the same
\* name, exactly one is acknowledged and the other gets the conflict token; when the
\* rejected one then sends /username with an unused name, it is accepted and both
\* are registered with distinct names.
C5_ConflictRetryLoop ==
    \A f1, f2 \in DOMAIN clients :
        (/\ f1 # f2
         /\ pc = "wait"
         /\ Drained(f1) /\ Drained(f2)
         /\ \A c \in Conns \ {fdconn[f1], fdconn[f2]} : sentBytes[c] = <<>>
         /\ sentBytes[fdconn[f1]] = RegLineA)
        =>
        /\ sentBytes[fdconn[f2]] = RegLineA =>
              {outbox[fdconn[f1]], outbox[fdconn[f2]]}
                  = {<<success_msg>>, <<DUPLICATED_USERNAME_ERROR>>}
        /\ (sentBytes[fdconn[f2]] = RegLineA \o RegLineB
                /\ outbox[fdconn[f2]] # <<>>
                /\ outbox[fdconn[f2]][1] = DUPLICATED_USERNAME_ERROR) =>
              /\ outbox[fdconn[f1]] = <<success_msg>>
              /\ outbox[fdconn[f2]] = <<DUPLICATED_USERNAME_ERROR, success_msg>>
              /\ clients[f1].username = NameA
              /\ clients[f2].username = NameB

\* C6. Resource reclamation: no name stays claimed once the connection that claimed
\* it is gone, so a new connection can register it.
C6_ResourceReclamation ==
    \A name \in usernames : \E fd \in DOMAIN clients : name \in claimed[fdconn[fd]]

\* C7. Framing idempotence: once every byte a connection sent has been read, the
\* messages the server resolved for it are those it resolves when the same bytes
\* arrive as a single chunk, however the bytes were split.
C7_FramingIdempotence ==
    \A fd \in DOMAIN clients :
        (Drained(fd) /\ pc = "wait")
            => resolved[fdconn[fd]] = OneChunk(sentBytes[fdconn[fd]])

\* C8. No self-delivery: the connection whose line is broadcast is never a target
\* of that broadcast and nothing is written to it by the broadcast.
C8_NoSelfDelivery ==
    /\ [](bcast.active =>
            /\ bcast.sender \notin bcast.visited
            /\ bcast.senderConn \notin bcast.delivered)
    /\ [][bcast'.active => outbox'[bcast'.senderConn] = outbox[bcast'.senderConn]]_vars

\* a broadcast reached another connection
C8_Witness ==
    /\ bcast.active
    /\ bcast.delivered # {}
    /\ bcast.sender \in bcast.targets

\* C9. Display-name immutability: once a connection has a display name, no later
\* message from it changes the name or adds an entry to the registry.
C9_DisplayNameImmutable ==
    [][/\ \A fd \in (DOMAIN clients) \cap (DOMAIN clients') :
             (Registered(fd) /\ fdconn'[fd] = fdconn[fd])
                 => clients'[fd].username = clients[fd].username
       /\ (pc = "dispatch" /\ Registered(events[i])) => usernames' \subseteq usernames]_vars

\* C10. Exactly-once destruction: the handle of every accepted connection is closed
\* exactly once when the connection is destroyed; close is never issued again on a
\* handle already closed.
C10_ExactlyOnceDestruction ==
    \A c \in Conns :
        c < nextConn => closeCalls[c] = (IF Live(c) THEN 0 ELSE 1)

\* C11. No use after close: the server never performs a recv, send or epoll
\* operation on a client handle after the handle was closed; no ready event that
\* was already fetched for the handle is processed afterwards.
C11_NoUseAfterClose ==
    [][(pc = "dispatch" /\ events[i] # server_fd /\ <<i, pc>>' # <<i, pc>>)
          => events[i] \in open]_vars

\* number of times the server wrote exactly msg to a connection
Copies(sent, msg) == Cardinality({k \in DOMAIN sent : sent[k] = msg})

\* text occurs in data as a run of consecutive bytes
Contains(data, text) ==
    \E k \in 1..(Len(data) - Len(text) + 1) : SubSeq(data, k, k + Len(text) - 1) = text

\* the server is back in epoll_wait and has read everything the peers wrote
Idle == pc = "wait" /\ \A fd \in FDs : inbound[fd] = <<>>

\* the three peers of the session were accepted as A, B, C and are monitored
ThreeClients ==
    /\ DOMAIN clients = {1, 2, 3}
    /\ open = {1, 2, 3}
    /\ epoll = {1, 2, 3}
    /\ \A fd \in {1, 2, 3} : fdconn[fd] = fd

\* C12. Broadcast completeness: when a registered connection S sends a complete
\* chat line with text t, every other registered connection whose socket accepts
\* the write receives exactly one copy of "<name of S>: t" followed by a newline.
\* Checked on the session: A is registered and has written the line hello.
C12_BroadcastCompleteness ==
    (ThreeClients /\ Idle /\ step = 5 /\ Registered(1)) =>
        \A fd \in {2, 3} :
            (Registered(fd) /\ SendSucceeds(Snap, fd)) =>
                Copies(outbox[fdconn[fd]],
                       clients[1].username \o <<":", " ">> \o Hello \o <<"\n">>) = 1

\* C13. Broadcast targets are registered connections only: the server never writes
\* a broadcast line to a connection that has not registered. Checked for the
\* broadcasts of registered senders.
C13_RegisteredTargetsOnly ==
    (bcast.active /\ bcast.name # <<>>) =>
        \A c \in bcast.delivered :
            \E fd \in DOMAIN clients : fdconn[fd] = c /\ Registered(fd)

\* the server wrote the text of A's first or second chat line in this message
MentionsChat(msg) == Contains(msg, Hello) \/ Contains(msg, Bye)

\* C14. Per-connection ordering: when a connection sends chat line m1 before m2,
\* every recipient that receives both receives the broadcast of m1 before the
\* broadcast of m2, each as a separate line. Checked on the session: A has written
\* hello, then bye.
C14_PerConnectionOrdering ==
    (ThreeClients /\ Idle /\ step = 6) =>
        \A fd \in {2, 3} :
            LET got == SelectSeq(outbox[fdconn[fd]], MentionsChat) IN
            ((\E k \in DOMAIN got : Contains(got[k], Hello))
                /\ (\E k \in DOMAIN got : Contains(got[k], Bye)))
            => got = << clients[1].username \o <<":", " ">> \o Hello \o <<"\n">>,
                        clients[1].username \o <<":", " ">> \o Bye \o <<"\n">> >>

\* C15. Live-set invariant: a connection is present in the live set exactly when
\* its handle is open and registered with epoll; this holds after every accept
\* (including when adding the handle to epoll fails) and after every disconnect.
C15_LiveSetInvariant ==
    \A fd \in FDs : fd \in DOMAIN clients <=> (fd \in open /\ fd \in epoll)

\* C16. Every live registered connection has a non-empty display name that is
\* present in the registry.
C16_RegisteredHasName ==
    \A fd \in (DOMAIN clients) \cap open :
        (claimed[fdconn[fd]] # {} \/ Registered(fd)) =>
            /\ clients[fd].username # <<>>
            /\ clients[fd].username \in usernames

\* a registered connection is live after another registered connection was destroyed
C16_Witness ==
    /\ \E fd \in (DOMAIN clients) \cap open : Registered(fd)
    /\ \E c \in Conns : claimed[c] # {} /\ closeCalls[c] > 0 /\ ~Live(c)

\* C17. Failure containment: no event that concerns a single connection (accept
\* failure, end of stream, read error, send failure during a broadcast) makes the
\* event loop exit, and destroying one connection leaves the display name, the
\* buffered partial input and the registry entry of every other live connection
\* unchanged.
C17_FailureContainment ==
    [][pc = "dispatch" =>
          /\ pc' \in {"wait", "dispatch"}
          /\ \A fd \in ((DOMAIN clients) \cap (DOMAIN clients')) \ {events[i]} :
                fdconn'[fd] = fdconn[fd] =>
                    /\ clients'[fd] = clients[fd]
                    /\ clients[fd].username \in usernames
                           => clients[fd].username \in usernames']_vars

\* the event loop sits in accept or recv until some peer acts
ServerBlocked ==
    /\ pc = "dispatch"
    /\ IF events[i] = server_fd THEN backlog = 0 ELSE RecvBlocks(Snap, events[i])

\* C18. Shutdown: once the shutdown flag is set, the loop observes it and exits
\* within one bounded readiness wait whatever the connected peers do; on exit
\* every still-open client handle, the epoll handle and the listening socket are
\* each closed exactly once.
C18_Shutdown ==
    /\ ~SERVER_IS_RUNNING => ~ServerBlocked
    /\ pc = "destroyed" =>
          /\ open = {}
          /\ \A c \in Conns : c < nextConn => closeCalls[c] >= 1
          /\ sysCloses = [epoll_fd |-> 1, server_fd |-> 1]

\* C19. No indefinite blocking: no recv or send can block forever because of one
\* peer's behaviour; the loop always returns to the readiness wait.
C19_NoIndefiniteBlocking ==
    (pc = "dispatch" /\ events[i] # server_fd) => ~RecvBlocks(Snap, events[i])

\* what A, B and C have received once the first n lines of the session were handled
SessionReplies(n) ==
    LET hello == Alice \o <<":", " ">> \o Hello \o <<"\n">> IN
    << IF n >= 1 THEN <<success_msg>> ELSE <<>>,
       (IF n >= 2 THEN <<success_msg>> ELSE <<>>) \o (IF n >= 5 THEN <<hello>> ELSE <<>>),
       (IF n >= 3 THEN <<DUPLICATED_USERNAME_ERROR>> ELSE <<>>)
           \o (IF n >= 4 THEN <<success_msg>> ELSE <<>>)
           \o (IF n >= 5 THEN <<hello>> ELSE <<>>) >>

\* C20. End-to-end scenario: with three connected clients, A registers alice and
\* is acknowledged, B registers bob and is acknowledged, C requests alice and gets
\* the conflict token, then retries with carol and is acknowledged; when A then
\* sends the line hello, B and C each receive exactly "alice: hello" and A
\* receives nothing.
C20_EndToEndScenario ==
    (ThreeClients /\ Idle /\ step <= 5) =>
        <<outbox[1], outbox[2], outbox[3]>> = SessionReplies(step)

\* C21. Connection cap: the number of simultaneously connected clients held by the
\* server never exceeds MAX_CLIENTS; a connection attempt arriving when the cap is
\* reached is not added to the live set.
C21_ConnectionCap == Cardinality(DOMAIN clients) <= MAX_CLIENTS

\* this step is the loop body handling the event of a client handle
ClientEventHandled ==
    /\ pc = "dispatch"
    /\ events[i] # server_fd
    /\ <<i, pc>>' # <<i, pc>>

\* C22. Read-side teardown: a zero-length read or a failed read on a client
\* connection, registered or not, destroys exactly that connection in the same
\* step: it is deregistered from epoll, its handle is closed, its name (if any) is
\* released from the registry and it is removed from the live set; nothing from
\* that read is broadcast.
C22_ReadSideTeardown ==
    [][(ClientEventHandled /\ RecvFails(Snap, events[i])) =>
          LET fd == events[i] IN
          /\ fd \notin epoll'
          /\ fd \notin open'
          /\ open' = open \ {fd}
          /\ fd \in open => closeCalls'[fdconn[fd]] = closeCalls[fdconn[fd]] + 1
          /\ Registered(fd) => clients[fd].username \notin usernames'
          /\ DOMAIN clients' = (DOMAIN clients) \ {fd}
          /\ \A other \in DOMAIN clients' :
                /\ clients'[other] = clients[other]
                /\ clients[other].username \in usernames
                      => clients[other].username \in usernames'
          /\ outbox' = outbox
          /\ ~bcast'.active]_vars

\* a registered connection was destroyed by a read although nothing was ever
\* broadcast, and its name is free again
C22_Witness ==
    /\ usernames = {}
    /\ \E c \in Conns : claimed[c] # {} /\ closeCalls[c] = 1 /\ ~Live(c)
    /\ \A c \in Conns : \A k \in DOMAIN resolved[c] : resolved[c][k].kind # "chat"

\* this step is the loop body handling bytes read from a client handle
DataHandled == ClientEventHandled /\ RecvHasData(Snap, events[i])

\* the bytes the read of this step returned
Chunk ==
    Take(inbound[events[i]], Len(inbound[events[i]]) - Len(inbound'[events[i]]))

\* the other connections were written nothing in this step
OthersSilent ==
    \A c \in Conns \ {fdconn[events[i]]} : outbox'[c] = outbox[c]

\* what the handled connection has received after this step if reply was sent to it
Replied(reply) ==
    outbox'[fdconn[events[i]]] =
        IF SendSucceeds(Snap, events[i])
        THEN Append(outbox[fdconn[events[i]]], reply)
        ELSE outbox[fdconn[events[i]]]

\* C23. Rejected registration changes nothing: when a /username request names a
\* name already in the registry, the requesting connection stays as it was, the
\* registry and every connection's display name are unchanged, exactly the conflict
\* token 101 is written to the requesting connection and to no other, and the
\* connection stays connected so that it may retry.
C23_RejectedRegistration ==
    [][(/\ DataHandled
        /\ parse_username(trimBuffer(Chunk), TEMP_USERNAME_SIZE).ok
        /\ parse_username(trimBuffer(Chunk), TEMP_USERNAME_SIZE).name \in usernames)
       =>
       /\ clients' = clients
       /\ usernames' = usernames
       /\ open' = open
       /\ epoll' = epoll
       /\ Replied(DUPLICATED_USERNAME_ERROR)
       /\ OthersSilent
       /\ ~bcast'.active]_vars

\* an unregistered connection was turned down twice and is still connected
C23_Witness ==
    \E fd \in (DOMAIN clients) \cap open :
        /\ clients[fd].username = <<>>
        /\ outbox[fdconn[fd]] = <<DUPLICATED_USERNAME_ERROR, DUPLICATED_USERNAME_ERROR>>

\* the chunk is one complete line
OneLine(chunk) ==
    /\ chunk # <<>>
    /\ \A k \in DOMAIN chunk : chunk[k] = "\n" <=> k = Len(chunk)

\* the remainder of a line after the literal prefix, the line stripped of
\* surrounding whitespace
LineName(line) == Drop(trimBuffer(line), Len(cmd))

\* C24. Successful registration: when an unregistered connection sends /username
\* with a name not in the registry, that connection becomes registered under
\* exactly that name, the name is added to the registry, the success
\* acknowledgment is written to that connection only, and nothing is broadcast.
C24_SuccessfulRegistration ==
    [][(/\ DataHandled
        /\ ~Registered(events[i])
        /\ clients[events[i]].write_buffer = <<>>
        /\ OneLine(Chunk)
        /\ HasCmdPrefix(trimBuffer(Chunk))
        /\ LineName(Chunk) # <<>>
        /\ LineName(Chunk) \notin usernames)
       =>
       /\ clients'[events[i]].username = LineName(Chunk)
       /\ usernames' = usernames \cup {LineName(Chunk)}
       /\ \A other \in (DOMAIN clients) \ {events[i]} : clients'[other] = clients[other]
       /\ Replied(success_msg)
       /\ OthersSilent
       /\ ~bcast'.active]_vars

\* C25. Multiple messages per chunk: when one receive chunk contains several line
\* terminators, each terminated line is resolved as its own message, in arrival
\* order; lines are never merged into one message.
C25_MultipleMessagesPerChunk ==
    [][\A l1, l2 \in PeerLines :
          (/\ DataHandled
           /\ clients[events[i]].write_buffer = <<>>
           /\ Chunk = l1 \o l2)
          => resolved'[fdconn[events[i]]] =
                 resolved[fdconn[events[i]]] \o OneChunk(l1) \o OneChunk(l2)]_vars

\* C26. Partial data is only buffered: bytes received without a line terminator
\* cause no registration, no reply and no broadcast until the terminator of that
\* line has been received, for chat text and for a /username command alike.
C26_PartialDataOnlyBuffered ==
    [][(DataHandled /\ \A k \in DOMAIN Chunk : Chunk[k] # "\n") =>
          /\ usernames' = usernames
          /\ clients'[events[i]].username = clients[events[i]].username
          /\ resolved' = resolved
          /\ outbox' = outbox
          /\ ~bcast'.active]_vars

\* C27. Registered name is the line remainder only: the name claimed by a
\* /username command never contains a line terminator nor text of a following
\* line received in the same chunk.
C27_NameIsLineRemainder ==
    /\ \A name \in usernames : \A k \in DOMAIN name : name[k] # "\n"
    /\ \A fd \in DOMAIN clients :
          \A k \in DOMAIN clients[fd].username : clients[fd].username[k] # "\n"

\* every byte of the chunk is whitespace
AllWhitespace(chunk) == \A k \in DOMAIN chunk : isspace(chunk[k])

\* C28. Empty messages have no effect: handling an empty or all-whitespace message
\* sends nothing to any connection, attempts no registration, and leaves the
\* registry, every display name and the live set unchanged.
C28_EmptyMessagesNoEffect ==
    [][(/\ DataHandled
        /\ clients[events[i]].write_buffer = <<>>
        /\ AllWhitespace(Chunk))
       =>
       /\ clients' = clients
       /\ usernames' = usernames
       /\ open' = open
       /\ epoll' = epoll
       /\ resolved' = resolved
       /\ outbox' = outbox
       /\ ~bcast'.active]_vars

\* a whitespace-only line was read from a connection while another connection was
\* there to be written to, and nothing was resolved or sent
C28_Witness ==
    /\ pc = "wait"
    /\ Cardinality(open) >= 2
    /\ \E fd \in DOMAIN clients :
          /\ Drained(fd)
          /\ sentBytes[fdconn[fd]] = BlankLine
          /\ resolved[fdconn[fd]] = <<>>
    /\ \A c \in Conns : outbox[c] = <<>>

\* the number of received bytes the resolved messages are made of
RECURSIVE UsedBytes(_)
UsedBytes(msgs) ==
    IF msgs = <<>> THEN 0
    ELSE (IF Head(msgs).kind = "reg" THEN Len(cmd) ELSE 0)
             + Len(Head(msgs).text) + UsedBytes(Tail(msgs))

\* C29. Buffer draining: after a message of a connection has been extracted and
\* broadcast, its bytes are no longer in the connection's buffer; no received byte
\* appears in more than one broadcast line, and no byte consumed by a successful
\* or rejected registration appears in a later broadcast.
C29_BufferDraining ==
    /\ (bcast.active /\ bcast.sender \in DOMAIN clients
            /\ fdconn[bcast.sender] = bcast.senderConn)
          => clients[bcast.sender].write_buffer = <<>>
    /\ \A fd \in (DOMAIN clients) \cap open :
          UsedBytes(resolved[fdconn[fd]]) + Len(clients[fd].write_buffer)
              <= Len(sentBytes[fdconn[fd]]) - Len(inbound[fd])

\* a connection registered, then had two chat lines broadcast one after the
\* other, to another connection
C29_Witness ==
    \E fd \in (DOMAIN clients) \cap open :
        /\ resolved[fdconn[fd]] = << [kind |-> "reg", text |-> NameA],
                                    [kind |-> "chat", text |-> <<"h", "i">>],
                                    [kind |-> "chat", text |-> <<"h", "i">>] >>
        /\ clients[fd].write_buffer = <<>>
        /\ bcast.active /\ bcast.delivered # {}

\* C30. Client and server agree on registration: the client switches to chat mode
\* only after the server has accepted a name for that connection; a conflict
\* token, or a broadcast line that arrives before or together with the
\* registration reply, never makes the client consider itself registered while
\* the server holds no name for it. Checked once the server has handled
\* everything the client sent.
C30_ClientServerAgree ==
    \A fd \in (DOMAIN clients) \cap open :
        (peer[fdconn[fd]].registered /\ Drained(fd) /\ pc = "wait") => Registered(fd)

\* the lines of a byte stream, without their terminators (an unterminated rest
\* counts as a line)
RECURSIVE Lines(_)
Lines(bytes) ==
    IF bytes = <<>> THEN <<>>
    ELSE LET nl == CHOOSE k \in 1..(Len(bytes) + 1) :
                       /\ k = Len(bytes) + 1 \/ bytes[k] = "\n"
                       /\ \A j \in 1..(k - 1) : bytes[j] # "\n"
         IN <<Take(bytes, nl - 1)>> \o Lines(Drop(bytes, nl))

\* the registration lines among the lines a client has sent
RegistrationLines(c) ==
    {k \in DOMAIN Lines(sentBytes[c]) : bufferStartsWith(Lines(sentBytes[c])[k], cmd)}

\* the acknowledgments and conflict tokens the server has written to a connection
RegistrationReplies(c) ==
    {k \in DOMAIN outbox[c] : outbox[c][k] \in {success_msg, DUPLICATED_USERNAME_ERROR}}

\* C31. Client-local /clear: a typed line that is the /clear command is never
\* sent; every other non-empty line typed after registration is sent exactly
\* once, terminated by a newline; an empty line is never sent.
C31_ClientLocalClear ==
    [][\A c \in Conns :
          peer'[c].entered # peer[c].entered =>
              LET line == peer'[c].entered[Len(peer'[c].entered)] IN
              sentBytes'[c] = sentBytes[c] \o
                  (IF line = <<>> \/ line = ClearCmd THEN <<>> ELSE line \o <<"\n">>)]_vars

\* C32. Client name validation: no registration line the client sends carries a
\* name that is empty after trimming or longer than 50 characters, and once the
\* server has handled everything the client sent it has answered every
\* registration line with the acknowledgment or the conflict token.
C32_ClientNameValidation ==
    /\ \A c \in Conns : \A k \in RegistrationLines(c) :
           LET name == Drop(Lines(sentBytes[c])[k], Len(cmd)) IN
           trimBuffer(name) # <<>> /\ Len(name) <= MAX_NAME_LENGTH
    /\ \A fd \in (DOMAIN clients) \cap open :
           (Drained(fd) /\ pc = "wait") =>
               Cardinality(RegistrationReplies(fdconn[fd])) =
                   Cardinality(RegistrationLines(fdconn[fd]))

\* C33. Stale ready events and handle reuse: the event the loop is about to handle
\* with recv names a handle that, when open, still belongs to the connection
\* whose readiness epoll_wait reported; an event left over for a destroyed
\* connection is never handled as a read on a connection accepted later in the
\* same batch under the same handle number.
C33_ReadOnReportedConnection ==
    (pc = "dispatch" /\ events[i] # server_fd /\ events[i] \in open)
        => fdconn[events[i]] = reported[i]

\* C34. No truncated delivery: after a broadcast, every target whose send
\* succeeded and that is still live has received the whole line; a short write
\* never leaves a live recipient with only a prefix of it.
C34_NoTruncatedDelivery ==
    bcast.active =>
        \A c \in bcast.delivered :
            Live(c) => outbox[c][Len(outbox[c])] = bcast.msg

\* the text of the chat line, and how often it occurs in data
ChatText == Take(ChatLine, Len(ChatLine) - 1)
Occurrences(data, text) ==
    Cardinality({k \in 1..(Len(data) - Len(text) + 1) :
                     SubSeq(data, k, k + Len(text) - 1) = text})

\* the chat text the server has broadcast for a connection, message after message
RECURSIVE BroadcastText(_)
BroadcastText(msgs) ==
    IF msgs = <<>> THEN <<>>
    ELSE (IF Head(msgs).kind = "chat" THEN Head(msgs).text ELSE <<>>)
             \o BroadcastText(Tail(msgs))

\* the chat lines a connection has written
ChatLinesSent(c) ==
    Cardinality({k \in DOMAIN Lines(sentBytes[c]) : Lines(sentBytes[c])[k] = ChatText})

\* C35. Delivery liveness: when the server is back in the readiness wait with no
\* handle ready, so that it takes no further step until some peer acts, every
\* chat line a registered connection that is still open has written has been
\* broadcast, however the line and its terminator were split across chunks; the
\* connection need not send anything more.
C35_DeliveryLiveness ==
    \A fd \in (DOMAIN clients) \cap open :
        (pc = "wait" /\ Ready = {} /\ Registered(fd) /\ sock[fd] = "ok")
            => Occurrences(BroadcastText(resolved[fdconn[fd]]), ChatText)
                   = ChatLinesSent(fdconn[fd])

\* the step handles a chunk that is not a /username command and not blank
ChatHandled ==
    /\ DataHandled
    /\ ~isBufferEmpty(trimBuffer(Chunk))
    /\ ~parse_username(trimBuffer(Chunk), TEMP_USERNAME_SIZE).ok

\* the step changes no display name of a connection it leaves in clients and
\* removes only targets whose send failed
SurvivorsKeepNames ==
    /\ \A fd \in (DOMAIN clients) \cap (DOMAIN clients') :
           clients'[fd].username = clients[fd].username
    /\ (DOMAIN clients) \ (DOMAIN clients') \subseteq bcast'.failed

\* C36 as stated. Chat handling frame: handling a chat line changes neither the
\* username registry nor any connection's display name, and removes no connection
\* other than targets whose send failed during that broadcast.
C36_ChatFrameAsStated ==
    [][ChatHandled => (usernames' = usernames /\ SurvivorsKeepNames)]_vars

\* C36. Chat handling frame, amended: handling a chat line adds nothing to the
\* username registry and removes from it only the display names of targets whose
\* send failed during that broadcast; it changes no display name of a connection
\* that stays, and removes no connection other than those targets.
C36_ChatFrame ==
    [][ChatHandled =>
          /\ usernames' \subseteq usernames
          /\ usernames \ usernames' \subseteq
                 {clients[fd].username : fd \in bcast'.failed \cap DOMAIN clients}
          /\ SurvivorsKeepNames]_vars

\* a broadcast has destroyed a registered target and taken its name out of the
\* registry
C36_Witness ==
    /\ bcast.active
    /\ \E fd \in bcast.failed :
           /\ fd \notin DOMAIN clients
           /\ claimed[fdconn[fd]] # {}
           /\ claimed[fdconn[fd]] \cap usernames = {}

\* C37. No phantom connections: every entry of clients is for a handle that an
\* accept returned and that has not been closed since, and handling an event of a
\* client handle never adds an entry to clients.
C37_NoPhantomConnections ==
    /\ [](\A fd \in DOMAIN clients :
             /\ fd \in open
             /\ fdconn[fd] \in 1..(nextConn - 1)
             /\ closeCalls[fdconn[fd]] = 0)
    /\ [][ClientEventHandled => DOMAIN clients' \subseteq DOMAIN clients]_vars

\* a lookup has written to the entry of a handle while another connection has
\* already been destroyed
C37_Witness ==
    /\ \E fd \in DOMAIN clients : clients[fd].write_buffer # <<>>
    /\ \E c \in Conns : closeCalls[c] > 0

====
